---- MODULE Spec2Model ----
(***************************************************************************)
(* Deepfake detection pipeline: frame sampling (detection_model/Deepfake   *)
(* Videos.py), per-frame video aggregation (backend/detector.py), batch    *)
(* and directory runs (Deepfake Videos.py, deepfake_image.py) and the      *)
(* explanation layer (backend/llm_service.py, backend/agent.py).           *)
(*                                                                         *)
(* Python lists are sequences; a Python index i is position i + 1.         *)
(* Floats in [0,1] (confidences) are integers in units of 1/ConfScale;     *)
(* a quotient is kept as the pair <<numerator, denominator>>.              *)
(***************************************************************************)
EXTENDS Integers, Sequences, FiniteSets, TLC

VARIABLES
    \* DeepfakeDetector.uniform_temporal_subsample
    frames,          \* the decoded frames handed to the sampler
    num_samples,     \* the required frame count N
    indices,         \* the local list of source indices
    sampled,         \* the returned frames
    us_pc,           \* "idle" | "call" | "return" | "IndexError"
    \* backend detect_video
    video,           \* what cap.read() will decode, frame by frame
    cap_opens,       \* whether cv2.VideoCapture can open the file
    frames_analyzed,
    results,         \* the list of (label, confidence)
    tmp_exists,      \* the NamedTemporaryFile(delete=False) is on disk
    cap_held,        \* the capture has been opened and not released
    dv_pc,           \* "idle" | "start" | "loop" | "aggregate" | "done"
    dv_out,          \* the dict detect_video returns
    \* predict_batch, predict_directory, predict_batch_images
    b_entry,         \* the function called
    fs_ci,           \* file names are matched case-insensitively (Windows)
    fs_media,        \* the files that exist, each with what it holds
    video_paths,     \* the list being processed (image_files for images)
    b_i,             \* how many items the loop has taken
    b_results,       \* the list `results`
    b_pc,            \* "idle" | "call" | "loop" | "return" | "raised"
    \* generate_response, generate_analysis_explanation, deepfake_agent
    l_entry,         \* the function called
    l_prompt,        \* generate_response's prompt
    l_intent,        \* generate_response's intent
    l_context,       \* generate_response's context
    l_posts,         \* the message lists posted to the service, in order
    l_http,          \* what the service did with the last post
    l_ret,           \* what generate_response returned or raised
    a_file_type,     \* deepfake_agent's file_type
    a_level,         \* deepfake_agent's technical_level
    a_detection,     \* the dict the detector returned
    a_out,           \* the dict deepfake_agent returns
    l_pc,            \* "idle" | "call" | "detected" | "done"
    \* backend/app.py: the requests being served, one per server thread
    r_request,       \* thread -> the request it serves
    r_pc,            \* thread -> "idle" | "recv" | "detector" | "infer" |
                     \*           "detected" | "explained" | "done" | "escaped"
    r_left,          \* thread -> frames the detector has still to classify
    r_calls,         \* thread -> the functions invoked for the request
    r_raised,        \* thread -> the exceptions raised while serving it
    r_result,        \* thread -> the dict to be serialised
    r_responses,     \* thread -> the responses sent for the request
    \* detection_model/main.py: the File Analysis API
    detections,      \* the rows of the table "detections", in insertion order
    storage,         \* the paths present in the storage bucket
    api_last         \* the last call and its response

vars == <<frames, num_samples, indices, sampled, us_pc,
          video, cap_opens, frames_analyzed, results, tmp_exists, cap_held,
          dv_pc, dv_out,
          b_entry, fs_ci, fs_media, video_paths, b_i, b_results, b_pc,
          l_entry, l_prompt, l_intent, l_context, l_posts, l_http, l_ret,
          a_file_type, a_level, a_detection, a_out, l_pc,
          r_request, r_pc, r_left, r_calls, r_raised, r_result, r_responses,
          detections, storage, api_last>>

appVars == <<r_request, r_pc, r_left, r_calls, r_raised, r_result, r_responses>>

authVars == <<detections, storage, api_last>>

llmVars == <<l_entry, l_prompt, l_intent, l_context, l_posts, l_http, l_ret,
             a_file_type, a_level, a_detection, a_out, l_pc>>

batchVars == <<b_entry, fs_ci, fs_media, video_paths, b_i, b_results, b_pc>>

samplerVars == <<frames, num_samples, indices, sampled, us_pc>>
videoVars == <<video, cap_opens, frames_analyzed, results, tmp_exists,
               cap_held, dv_pc, dv_out>>

(***************************************************************************)
(* Bounds of the model                                                     *)
(***************************************************************************)
MaxFrames == 9          \* longest frame list handed to the sampler
MaxSamples == 10        \* largest required frame count
MaxVideoFrames == 4     \* longest upload with freely chosen frames
LongFrames == 12        \* longest upload of identical frames
ConfScale == 100        \* a confidence c stands for c / ConfScale
MaxFiles == 2           \* most files in a directory
MaxBatch == 3           \* longest explicit list of paths
MaxContext == 8         \* longest conversation context
AppFrames == 2          \* most frames of a video uploaded to the web API
MaxDetections == 2      \* most rows of the table "detections"

\* while frames_analyzed < 10
FrameLimit == 10

\* context[-6:]
ContextWindow == 6

Pixels == {"p", "q"}

\* model.config.id2label of the image classifier, and the softmax maxima
\* the model is given to produce.
Labels == {"Fake", "Real"}
ConfValues == {70, 90, 100}

(***************************************************************************)
(* Python helpers                                                          *)
(***************************************************************************)
None == [t |-> "None"]

\* list(range(n))
Range(n) == [k \in 1..n |-> k - 1]

\* lst[i] with Python's negative indexing: whether it is in range
\* (otherwise IndexError), and the element.
PyIndexOk(lst, i) ==
    LET j == IF i < 0 THEN i + Len(lst) ELSE i
    IN  j >= 0 /\ j < Len(lst)

PyIndex(lst, i) ==
    LET j == IF i < 0 THEN i + Len(lst) ELSE i
    IN  lst[j + 1]

RECURSIVE Gcd(_, _)
Gcd(a, b) == IF b = 0 THEN a ELSE Gcd(b, a % b)

RECURSIVE IsPowerOfTwo(_)
IsPowerOfTwo(n) ==
    IF n <= 1 THEN n = 1
    ELSE IF n % 2 = 0 THEN IsPowerOfTwo(n \div 2) ELSE FALSE

(***************************************************************************)
(* uniform_temporal_subsample                                              *)
(***************************************************************************)

\* while len(indices) < num_samples: indices.append(total_frames - 1)
RECURSIVE PadWithFirst(_, _, _)
PadWithFirst(idx, total_frames, n) ==
    IF Len(idx) < n
    THEN PadWithFirst(Append(idx, 0), total_frames, n)
    ELSE idx

RECURSIVE PadLast(_, _, _)
PadLast(idx, total_frames, n) ==
    IF Len(idx) < n
    THEN PadLast(Append(idx, total_frames - 1), total_frames, n)
    ELSE idx

\* np.linspace computes step = stop / (num - 1) and y[i] = i * step in
\* double precision, stores stop itself in the last place, and dtype=int
\* takes the floor.  i * step is exact unless step is not a binary fraction;
\* then, where i * stop / (num - 1) is a whole number, the double product may
\* fall just below it and the floor is one less.  Those places:
InexactPositions(stop, num) ==
    IF num < 3 THEN {}
    ELSE { i \in 1..(num - 2) :
             /\ (i * stop) % (num - 1) = 0
             /\ ~IsPowerOfTwo((num - 1) \div Gcd(stop, num - 1)) }

\* np.linspace(0, stop, num, endpoint=False, dtype=int)
LinspaceNoEndpoint(stop, num, down) ==
    [k \in 1..num |-> ((k - 1) * stop) \div num]

\* Sampling with a whole stride, ceil(stop / (num - 1)), clamped to stop.
LinspaceStrideClamped(stop, num, down) ==
    [k \in 1..num |->
        LET stride == IF num = 1 THEN 0 ELSE (stop + num - 2) \div (num - 1)
        IN  IF (k - 1) * stride > stop THEN stop ELSE (k - 1) * stride]

\* np.linspace(0, stop, num, dtype=int); down: the places that fell below.
Linspace(stop, num, down) ==
    [k \in 1..num |->
        LET i == k - 1
        IN  IF num = 1 THEN 0
            ELSE IF i = num - 1 THEN stop
            ELSE ((i * stop) \div (num - 1)) - (IF i \in down THEN 1 ELSE 0)]

\* The list `indices` of uniform_temporal_subsample.
SubsampleIndices(total_frames, n, down) ==
    IF total_frames <= n
    THEN PadLast(Range(total_frames), total_frames, n)
    ELSE Linspace(total_frames - 1, n, down)

InitSampler ==
    /\ \E F \in 0..MaxFrames : frames \in [1..F -> Pixels]
    /\ num_samples \in 1..MaxSamples
    /\ indices = <<>>
    /\ sampled = <<>>
    /\ us_pc = "call"

IdleSampler ==
    /\ frames = <<>>
    /\ num_samples = 0
    /\ indices = <<>>
    /\ sampled = <<>>
    /\ us_pc = "idle"

\* return [frames[i] for i in indices]
UniformTemporalSubsample ==
    /\ us_pc = "call"
    /\ \E down \in SUBSET InexactPositions(Len(frames) - 1, num_samples) :
         LET idx == SubsampleIndices(Len(frames), num_samples, down)
         IN  /\ indices' = idx
             /\ IF \A k \in 1..Len(idx) : PyIndexOk(frames, idx[k])
                THEN /\ sampled' = [k \in 1..Len(idx) |->
                                       PyIndex(frames, idx[k])]
                     /\ us_pc' = "return"
                ELSE /\ sampled' = <<>>
                     /\ us_pc' = "IndexError"
    /\ UNCHANGED <<frames, num_samples>>
    /\ UNCHANGED videoVars
    /\ UNCHANGED batchVars
    /\ UNCHANGED llmVars
    /\ UNCHANGED appVars
    /\ UNCHANGED authVars

(***************************************************************************)
(* backend/detector.py: detect_video                                       *)
(***************************************************************************)

\* A decoded frame is named by what the classifier (deterministic, in eval
\* mode) returns for it; fails: preprocessing or inference raises on it.
FrameKinds ==
    [label : Labels, conf : ConfValues, fails : {FALSE}]
        \cup {[label |-> "Fake", conf |-> 100, fails |-> TRUE]}

GoodFrames == { f \in FrameKinds : ~f.fails }

Videos ==
    UNION { [1..n -> FrameKinds] : n \in 0..MaxVideoFrames }
        \cup { [k \in 1..n |-> f] : n \in FrameLimit..LongFrames, f \in GoodFrames }

IdleVideo ==
    /\ video = <<>>
    /\ cap_opens = FALSE
    /\ frames_analyzed = 0
    /\ results = <<>>
    /\ tmp_exists = FALSE
    /\ cap_held = FALSE
    /\ dv_pc = "idle"
    /\ dv_out = None

InitVideo ==
    /\ cap_opens \in BOOLEAN
    /\ video \in Videos
    /\ ~cap_opens => video = <<>>
    /\ frames_analyzed = 0
    /\ results = <<>>
    /\ tmp_exists = FALSE
    /\ cap_held = FALSE
    /\ dv_pc = "start"
    /\ dv_out = None

\* set([r[0] for r in results])
LabelSet(res) == { res[k][1] : k \in 1..Len(res) }

\* sum(1 for r in results if r[0] == l)
RECURSIVE CountOf(_, _)
CountOf(res, l) ==
    IF res = <<>> THEN 0
    ELSE (IF Head(res)[1] = l THEN 1 ELSE 0) + CountOf(Tail(res), l)

\* sum([r[1] for r in results if r[0] == final_label])
RECURSIVE SumConf(_, _)
SumConf(res, l) ==
    IF res = <<>> THEN 0
    ELSE (IF Head(res)[1] = l THEN Head(res)[2] ELSE 0) + SumConf(Tail(res), l)

\* The orders in which iterating a set of strings may yield its elements
\* (string hashing is seeded per process).
SetOrders(S) ==
    { o \in [1..Cardinality(S) -> S] : \A x \in S : \E k \in DOMAIN o : o[k] = x }

\* max(iterable, key=...) over a non-empty iteration order: the first of the
\* elements with the greatest key.
RECURSIVE PyMaxFrom(_, _, _)
PyMaxFrom(best, rest, res) ==
    IF rest = <<>> THEN best
    ELSE IF CountOf(res, Head(rest)) > CountOf(res, best)
         THEN PyMaxFrom(Head(rest), Tail(rest), res)
         ELSE PyMaxFrom(best, Tail(rest), res)

PyMinByCount(order, res) ==
    CHOOSE l \in LabelSet(res) :
        \A m \in LabelSet(res) : CountOf(res, l) <= CountOf(res, m)

PyMaxByCount(order, res) == PyMaxFrom(Head(order), Tail(order), res)

VideoError == [error |-> "Video detection failed"]

\* Lines 62-70 on a non-empty results list, for one iteration order.
VideoResult(res, order) ==
    LET final_label == PyMaxByCount(order, res)
        avg_confidence == <<SumConf(res, final_label), Len(res)>>
    IN  [type |-> "video",
         label |-> final_label,
         confidence |-> avg_confidence,
         artifacts |-> <<[type |-> "frame_consistency",
                          score |-> <<avg_confidence[1] * 100,
                                      avg_confidence[2]>>]>>]

\* max() of an empty set raises ValueError, which line 71 catches.
AggregateEmptyDefault(res) ==
    IF res = <<>>
    THEN {[type |-> "video", label |-> "Real", confidence |-> <<0, 1>>,
           artifacts |-> <<>>]}
    ELSE { VideoResult(res, o) : o \in SetOrders(LabelSet(res)) }

AggregateOutcomes(res) ==
    IF res = <<>>
    THEN {VideoError}
    ELSE { VideoResult(res, o) : o \in SetOrders(LabelSet(res)) }

\* Lines 35-37: the upload is written to a temporary file that is kept.
DvWriteTemp ==
    /\ dv_pc = "start"
    /\ tmp_exists' = TRUE
    /\ dv_pc' = "open"
    /\ UNCHANGED <<video, cap_opens, frames_analyzed, results, cap_held, dv_out>>
    /\ UNCHANGED samplerVars
    /\ UNCHANGED batchVars
    /\ UNCHANGED llmVars
    /\ UNCHANGED appVars
    /\ UNCHANGED authVars

\* Lines 39-41.
DvOpen ==
    /\ dv_pc = "open"
    /\ cap_held' = TRUE
    /\ frames_analyzed' = 0
    /\ results' = <<>>
    /\ dv_pc' = "loop"
    /\ UNCHANGED <<video, cap_opens, tmp_exists, dv_out>>
    /\ UNCHANGED samplerVars
    /\ UNCHANGED batchVars
    /\ UNCHANGED llmVars
    /\ UNCHANGED appVars
    /\ UNCHANGED authVars

\* The loop of lines 43-58 without the test frames_analyzed < 10.
DvFrameNoLimit ==
    /\ dv_pc = "loop"
    /\ cap_opens
    /\ frames_analyzed < Len(video)
    /\ ~video[frames_analyzed + 1].fails
    /\ results' = Append(results, <<video[frames_analyzed + 1].label,
                                    video[frames_analyzed + 1].conf>>)
    /\ frames_analyzed' = frames_analyzed + 1
    /\ UNCHANGED <<video, cap_opens, tmp_exists, cap_held, dv_pc, dv_out>>
    /\ UNCHANGED samplerVars
    /\ UNCHANGED batchVars
    /\ UNCHANGED llmVars
    /\ UNCHANGED appVars
    /\ UNCHANGED authVars

\* Lines 43-58: one iteration that reads a frame and classifies it.
DvFrame ==
    /\ dv_pc = "loop"
    /\ frames_analyzed < FrameLimit /\ cap_opens
    /\ frames_analyzed < Len(video)
    /\ ~video[frames_analyzed + 1].fails
    /\ results' = Append(results, <<video[frames_analyzed + 1].label,
                                    video[frames_analyzed + 1].conf>>)
    /\ frames_analyzed' = frames_analyzed + 1
    /\ UNCHANGED <<video, cap_opens, tmp_exists, cap_held, dv_pc, dv_out>>
    /\ UNCHANGED samplerVars
    /\ UNCHANGED batchVars
    /\ UNCHANGED llmVars
    /\ UNCHANGED appVars
    /\ UNCHANGED authVars

\* Lines 47-56 raise on the frame read: line 71 returns the error.
DvFrameRaises ==
    /\ dv_pc = "loop"
    /\ frames_analyzed < FrameLimit /\ cap_opens
    /\ frames_analyzed < Len(video)
    /\ video[frames_analyzed + 1].fails
    /\ dv_out' = VideoError
    /\ dv_pc' = "done"
    /\ UNCHANGED <<video, cap_opens, frames_analyzed, results, tmp_exists, cap_held>>
    /\ UNCHANGED samplerVars
    /\ UNCHANGED batchVars
    /\ UNCHANGED llmVars
    /\ UNCHANGED appVars
    /\ UNCHANGED authVars

\* Line 43 false, or line 45-46 (no frame read): the loop ends; line 60.
DvRelease ==
    /\ dv_pc = "loop"
    /\ \/ ~(frames_analyzed < FrameLimit /\ cap_opens)
       \/ ~(frames_analyzed < Len(video))
    /\ cap_held' = FALSE
    /\ dv_pc' = "aggregate"
    /\ UNCHANGED <<video, cap_opens, frames_analyzed, results, tmp_exists, dv_out>>
    /\ UNCHANGED samplerVars
    /\ UNCHANGED batchVars
    /\ UNCHANGED llmVars
    /\ UNCHANGED appVars
    /\ UNCHANGED authVars

\* Lines 62-72.
DvAggregate ==
    /\ dv_pc = "aggregate"
    /\ dv_out' \in AggregateOutcomes(results)
    /\ dv_pc' = "done"
    /\ UNCHANGED <<video, cap_opens, frames_analyzed, results, tmp_exists, cap_held>>
    /\ UNCHANGED samplerVars
    /\ UNCHANGED batchVars
    /\ UNCHANGED llmVars
    /\ UNCHANGED appVars
    /\ UNCHANGED authVars

(***************************************************************************)
(* Deepfake Videos.py: predict_single_video, predict_batch,                *)
(* predict_directory; deepfake_image.py: predict_batch_images              *)
(***************************************************************************)

\* A file name is a stem and a suffix; a file holds a number of decodable
\* frames and what inference does on them.
VideoSuffixes == {"mp4", "MP4", "txt"}
ImageSuffixes == {"jpg", "PNG", "txt"}

Media ==
    { [nframes |-> 0, infer |-> "none"],
      [nframes |-> 3, infer |-> "raise"],
      [nframes |-> 3, infer |-> "class0"],
      [nframes |-> 3, infer |-> "class1"] }

\* str.upper() and, for case-insensitive matching, the folded name.
Upper(x) ==
    CASE x \in {"mp4", "MP4"} -> "MP4"
      [] x \in {"jpg", "JPG"} -> "JPG"
      [] x \in {"jpeg", "JPEG"} -> "JPEG"
      [] x \in {"png", "PNG"} -> "PNG"
      [] x \in {"bmp", "BMP"} -> "BMP"
      [] OTHER -> "TXT"

\* glob("*" + ext): the existing files whose name ends in ext.
Glob(ext) ==
    { f \in DOMAIN fs_media :
        IF fs_ci THEN Upper(f.suffix) = Upper(ext) ELSE f.suffix = ext }

\* The lists a set may be turned into or listed as.
ListsOf(S) == SetOrders(S)

\* Directories: for each stem at most one file.
Directories(suffixes) ==
    UNION { [ { [stem |-> k, suffix |-> sfx[k]] : k \in present } -> Media ] :
              present \in SUBSET (1..MaxFiles), sfx \in [1..MaxFiles -> suffixes] }

InjectiveLists(S, n) ==
    UNION { { l \in [1..k -> S] : \A i, j \in 1..k : l[i] = l[j] => i = j } :
              k \in 0..n }

IdleBatch ==
    /\ b_entry = "none"
    /\ fs_ci = FALSE
    /\ fs_media = <<>>
    /\ video_paths = <<>>
    /\ b_i = 0
    /\ b_results = <<>>
    /\ b_pc = "idle"

InitBatch ==
    /\ b_entry \in {"predict_batch", "predict_directory", "predict_batch_images"}
    /\ fs_ci \in BOOLEAN
    /\ \/ /\ b_entry = "predict_batch"
          /\ fs_ci = FALSE
          /\ video_paths \in
               InjectiveLists({ [stem |-> k, suffix |-> "mp4"] : k \in 1..MaxBatch },
                              MaxBatch)
          /\ fs_media \in [ { video_paths[k] : k \in DOMAIN video_paths } -> Media ]
       \/ /\ b_entry = "predict_directory"
          /\ fs_media \in Directories(VideoSuffixes)
          /\ video_paths = <<>>
       \/ /\ b_entry = "predict_batch_images"
          /\ fs_media \in Directories(ImageSuffixes)
          /\ video_paths = <<>>
    /\ b_i = 0
    /\ b_results = <<>>
    /\ b_pc = "call"

\* predict_single_video without its try/except: the exception escapes.
PredictSingleVideoNoCatch(video_path, media) ==
    IF media.nframes = 0 \/ media.infer = "raise"
    THEN [raised |-> TRUE, value |-> None]
    ELSE [raised |-> FALSE,
          value |-> [video_path |-> video_path,
                     prediction |-> IF media.infer = "class1" THEN "FAKE" ELSE "REAL",
                     confidence |-> IF media.infer = "class1" THEN 90 ELSE 70,
                     predicted_class_idx |-> IF media.infer = "class1" THEN 1 ELSE 0]]

\* predict_single_video: preprocess_video raises ValueError on a file with
\* no decodable frame (lines 76-77), exactly num_frames frames are sampled
\* otherwise; every exception becomes an error record (lines 152-156).
PredictSingleVideo(video_path, media) ==
    IF media.nframes = 0
    THEN [raised |-> FALSE,
          value |-> [video_path |-> video_path,
                     error |-> "Could not read any frames"]]
    ELSE IF media.infer = "raise"
    THEN [raised |-> FALSE,
          value |-> [video_path |-> video_path, error |-> "inference failed"]]
    ELSE [raised |-> FALSE,
          value |-> [video_path |-> video_path,
                     prediction |-> IF media.infer = "class1" THEN "FAKE" ELSE "REAL",
                     confidence |-> IF media.infer = "class1" THEN 90 ELSE 70,
                     predicted_class_idx |-> IF media.infer = "class1" THEN 1 ELSE 0]]

\* predict_single_image: (label, confidence), or (None, None) on any
\* exception.
PredictSingleImage(image_path, media) ==
    IF media.nframes = 0 \/ media.infer = "raise"
    THEN <<None, None>>
    ELSE <<[t |-> "str", s |-> IF media.infer = "class1" THEN "Real" ELSE "Fake"],
           [t |-> "float", x |-> IF media.infer = "class1" THEN 90 ELSE 70]>>

\* predict_batch line 162, called with an explicit list.
PredictBatchCall ==
    /\ b_pc = "call"
    /\ b_entry = "predict_batch"
    /\ b_results' = <<>>
    /\ b_i' = 0
    /\ b_pc' = "loop"
    /\ UNCHANGED <<b_entry, fs_ci, fs_media, video_paths>>
    /\ UNCHANGED samplerVars
    /\ UNCHANGED videoVars
    /\ UNCHANGED llmVars
    /\ UNCHANGED appVars
    /\ UNCHANGED authVars

\* predict_directory with the default extensions ['.mp4'], up to its call of
\* predict_batch.
PredictDirectory ==
    /\ b_pc = "call"
    /\ b_entry = "predict_directory"
    /\ \E lower \in ListsOf(Glob("mp4")), upper \in ListsOf(Glob(Upper("mp4"))) :
         /\ video_paths' = lower \o upper
         /\ b_results' = <<>>
         /\ b_i' = 0
         /\ b_pc' = IF lower \o upper = <<>> THEN "return" ELSE "loop"
    /\ UNCHANGED <<b_entry, fs_ci, fs_media>>
    /\ UNCHANGED samplerVars
    /\ UNCHANGED videoVars
    /\ UNCHANGED llmVars
    /\ UNCHANGED appVars
    /\ UNCHANGED authVars

\* predict_batch lines 163-171: one item.
PredictBatchItem ==
    /\ b_pc = "loop"
    /\ b_entry \in {"predict_batch", "predict_directory"}
    /\ b_i < Len(video_paths)
    /\ LET video_path == video_paths[b_i + 1]
           result == PredictSingleVideo(video_path, fs_media[video_path])
       IN  IF result.raised
           THEN /\ b_pc' = "raised"
                /\ UNCHANGED <<b_results, b_i>>
           ELSE /\ b_results' = Append(b_results, result.value)
                /\ b_i' = b_i + 1
                /\ UNCHANGED b_pc
    /\ UNCHANGED <<b_entry, fs_ci, fs_media, video_paths>>
    /\ UNCHANGED samplerVars
    /\ UNCHANGED videoVars
    /\ UNCHANGED llmVars
    /\ UNCHANGED appVars
    /\ UNCHANGED authVars

\* predict_batch line 173.
PredictBatchReturn ==
    /\ b_pc = "loop"
    /\ b_entry \in {"predict_batch", "predict_directory"}
    /\ b_i = Len(video_paths)
    /\ b_pc' = "return"
    /\ UNCHANGED <<b_entry, fs_ci, fs_media, video_paths, b_i, b_results>>
    /\ UNCHANGED samplerVars
    /\ UNCHANGED videoVars
    /\ UNCHANGED llmVars
    /\ UNCHANGED appVars
    /\ UNCHANGED authVars

ImageExtensions == <<"jpg", "jpeg", "png", "bmp">>

\* predict_batch_images lines 30-40: both patterns of every extension, then
\* list(set(image_files)).
PredictBatchImagesGlob ==
    /\ b_pc = "call"
    /\ b_entry = "predict_batch_images"
    /\ video_paths' \in
         ListsOf(UNION { Glob(ImageExtensions[k]) \cup Glob(Upper(ImageExtensions[k])) :
                           k \in DOMAIN ImageExtensions })
    /\ b_results' = <<>>
    /\ b_i' = 0
    /\ b_pc' = "loop"
    /\ UNCHANGED <<b_entry, fs_ci, fs_media>>
    /\ UNCHANGED samplerVars
    /\ UNCHANGED videoVars
    /\ UNCHANGED llmVars
    /\ UNCHANGED appVars
    /\ UNCHANGED authVars

\* predict_batch_images lines 42-56: one image.
PredictBatchImagesItem ==
    /\ b_pc = "loop"
    /\ b_entry = "predict_batch_images"
    /\ b_i < Len(video_paths)
    /\ LET image_path == video_paths[b_i + 1]
           pair == PredictSingleImage(image_path, fs_media[image_path])
       IN  IF pair[1] # None
           THEN b_results' = Append(b_results,
                                    [image_path |-> image_path,
                                     filename |-> image_path,
                                     prediction |-> pair[1].s,
                                     confidence |-> pair[2].x])
           ELSE UNCHANGED b_results
    /\ b_i' = b_i + 1
    /\ UNCHANGED <<b_entry, fs_ci, fs_media, video_paths, b_pc>>
    /\ UNCHANGED samplerVars
    /\ UNCHANGED videoVars
    /\ UNCHANGED llmVars
    /\ UNCHANGED appVars
    /\ UNCHANGED authVars

\* predict_batch_images line 58.
PredictBatchImagesReturn ==
    /\ b_pc = "loop"
    /\ b_entry = "predict_batch_images"
    /\ b_i = Len(video_paths)
    /\ b_pc' = "return"
    /\ UNCHANGED <<b_entry, fs_ci, fs_media, video_paths, b_i, b_results>>
    /\ UNCHANGED samplerVars
    /\ UNCHANGED videoVars
    /\ UNCHANGED llmVars
    /\ UNCHANGED appVars
    /\ UNCHANGED authVars

(***************************************************************************)
(* backend/llm_service.py and backend/agent.py                             *)
(***************************************************************************)

\* JSON values, and Python values returned to the caller.
JNull == None
JStr(x) == [t |-> "str", s |-> x]
JList(l) == [t |-> "list", v |-> l]
JDict(d) == [t |-> "dict", v |-> d]

Intents == {"analysis", "educational", "conversational", "threat_analysis"}

SYSTEM_PROMPTS ==
    [analysis |-> "You are DeepShield AI, a forensic expert in deepfake detection. Provide detailed, professional analysis of detection results in clear, educational language.",
     educational |-> "You are DeepShield AI, an expert educator in AI security and deepfake detection. Explain complex concepts clearly and adapt to the user's technical level.",
     conversational |-> "You are DeepShield AI, a helpful AI security expert. Provide professional yet approachable responses about deepfakes, AI security, and digital forensics.",
     threat_analysis |-> "You are DeepShield AI, a cybersecurity expert specializing in deepfake threats. Provide comprehensive threat landscape analysis."]

FALLBACKS ==
    [analysis |-> "Based on multi-method forensic analysis, this content shows the indicated confidence level for authenticity assessment.",
     educational |-> "Advanced computer vision and ML techniques were used, including facial landmarks, texture patterns, and frequency-based filters.",
     threat_analysis |-> "Deepfakes pose threats to democracy, finance, and individual safety. Early detection is vital to protect digital ecosystems.",
     conversational |-> "I'm DeepShield AI, your assistant in spotting and explaining deepfakes. Ask me anything about media security!"]

\* What the service may do with one post: no response at all, a response
\* with an error status, a 200 whose body is not JSON, or a 200 with a JSON
\* body of any of these shapes.
MessageValues ==
    {JNull, JDict(<<>>)}
        \cup { JDict([content |-> c]) : c \in {JNull, JStr("completion")} }

ChoiceValues ==
    {JNull, JDict(<<>>)} \cup { JDict([message |-> m]) : m \in MessageValues }

ChoicesValues ==
    {JNull, JList(<<>>)} \cup { JList(<<c>>) : c \in ChoiceValues }

Bodies ==
    {JList(<<>>), JDict(<<>>)} \cup { JDict([choices |-> c]) : c \in ChoicesValues }

HttpOutcomes ==
    { [kind |-> "ConnectionError"], [kind |-> "Timeout"] }
        \cup { [kind |-> "response", status |-> st, json |-> FALSE] :
                 st \in {200, 404, 500} }
        \cup { [kind |-> "response", status |-> 200, json |-> TRUE, body |-> b] :
                 b \in Bodies }

\* A Python value or an exception.
Value(x) == [raised |-> FALSE, v |-> x]
Raise(e) == [raised |-> TRUE, v |-> JStr(e)]

\* obj.get(key, default): default is evaluated before the call.
PyGet(obj, key, default) ==
    IF obj.raised THEN obj
    ELSE IF default.raised THEN default
    ELSE IF obj.v.t # "dict" THEN Raise("AttributeError")
    ELSE IF key \in DOMAIN obj.v.v THEN Value(obj.v.v[key])
    ELSE default

\* obj[0]
PyFirst(obj) ==
    IF obj.raised THEN obj
    ELSE IF obj.v.t = "list"
         THEN IF Len(obj.v.v) > 0 THEN Value(obj.v.v[1]) ELSE Raise("IndexError")
    ELSE IF obj.v.t = "dict" THEN Raise("KeyError")
    ELSE Raise("TypeError")

\* FALLBACKS[intent]
FallbackOf(intent) ==
    IF intent \in DOMAIN FALLBACKS THEN Value(JStr(FALLBACKS[intent]))
    ELSE Raise("KeyError")

\* SYSTEM_PROMPTS.get(intent, SYSTEM_PROMPTS["conversational"])
SystemPromptOf(intent) ==
    IF intent \in DOMAIN SYSTEM_PROMPTS THEN SYSTEM_PROMPTS[intent]
    ELSE SYSTEM_PROMPTS["conversational"]

\* context[:6]
FirstOf(context, n) ==
    IF Len(context) <= n THEN context ELSE SubSeq(context, 1, n)

\* context[-6:]
LastOf(context, n) ==
    IF Len(context) <= n THEN context
    ELSE SubSeq(context, Len(context) - n + 1, Len(context))

\* Lines 28-30.
MessagesOf(prompt, intent, context) ==
    <<[role |-> "system", content |-> SystemPromptOf(intent)]>>
        \o LastOf(context, ContextWindow)
        \o <<[role |-> "user", content |-> prompt]>>

\* Lines 40-43: the try body, given what the service did.
TryBody(intent, http) ==
    IF http.kind # "response" THEN Raise(http.kind)
    ELSE IF http.status >= 400 THEN Raise("HTTPError")
    ELSE IF ~http.json THEN Raise("JSONDecodeError")
    ELSE PyGet(PyGet(PyFirst(PyGet(Value(http.body), "choices",
                                   Value(JList(<<JDict(<<>>)>>)))),
                     "message", Value(JDict(<<>>))),
               "content", FallbackOf(intent))

\* Lines 39-46: what generate_response returns or raises.
ResponseOf(intent, http) ==
    IF TryBody(intent, http).raised THEN FallbackOf(intent)
    ELSE TryBody(intent, http)

\* The context lists: k alternating messages.
Contexts ==
    { [k \in 1..n |-> [role |-> IF k % 2 = 1 THEN "user" ELSE "assistant",
                       content |-> k]] : n \in 0..MaxContext }

\* What detect_image and detect_video return.
ImageError == [error |-> "Image detection failed"]

ImageDetections ==
    {ImageError}
        \cup { [type |-> "image", label |-> l, confidence |-> <<c, 1>>,
                artifacts |-> <<[type |-> "face_texture", score |-> <<c * 100, 1>>]>>] :
                 l \in Labels, c \in ConfValues }

VideoDetections ==
    UNION { AggregateOutcomes(res) :
              res \in UNION { [1..n -> Labels \X ConfValues] : n \in 0..2 } }

FileTypes == {"image/jpeg", "video/mp4", "text/plain"}
TechnicalLevels == {"basic", "intermediate", "expert"}

\* A test that takes every content type for an image.
StartsWithAnything(file_type, prefix) ==
    prefix = "image/" /\ file_type # "None"

\* "image/..." and "video/..."
StartsWith(file_type, prefix) ==
    \/ prefix = "image/" /\ file_type = "image/jpeg"
    \/ prefix = "video/" /\ file_type = "video/mp4"

\* dict.get(key, default) on a Python dict of the detector.
DictGet(d, key, default) == IF key \in DOMAIN d THEN d[key] ELSE default

\* generate_analysis_explanation lines 50-71: the prompt.
AnalysisPrompt(result, filename, technical_level) ==
    [filename |-> filename,
     classification |-> IF DictGet(result, "label", "") \in {"fake", "Fake", "FAKE"}
                        THEN "DEEPFAKE DETECTED" ELSE "AUTHENTIC CONTENT",
     confidence |-> DictGet(result, "confidence", <<0, 1>>),
     artifacts |-> DictGet(result, "artifacts", <<>>),
     technical_level |-> technical_level]

IdleLlm ==
    /\ l_entry = "none"
    /\ l_prompt = None
    /\ l_intent = "none"
    /\ l_context = <<>>
    /\ l_posts = <<>>
    /\ l_http = None
    /\ l_ret = None
    /\ a_file_type = "none"
    /\ a_level = "none"
    /\ a_detection = None
    /\ a_out = None
    /\ l_pc = "idle"

InitLlm ==
    /\ l_entry \in {"generate_response", "deepfake_agent"}
    /\ \/ /\ l_entry = "generate_response"
          /\ l_prompt = [text |-> "question"]
          /\ l_intent \in Intents \cup {"smalltalk"}
          /\ l_context \in Contexts
          /\ a_file_type = "none"
          /\ a_level = "none"
       \/ /\ l_entry = "deepfake_agent"
          /\ l_prompt = None
          /\ l_intent = "none"
          /\ l_context = <<>>
          /\ a_file_type \in FileTypes
          /\ a_level \in TechnicalLevels
    /\ l_posts = <<>>
    /\ l_http = None
    /\ l_ret = None
    /\ a_detection = None
    /\ a_out = None
    /\ l_pc = "call"

\* generate_response, called directly.
GenerateResponse ==
    /\ l_pc = "call"
    /\ l_entry = "generate_response"
    /\ \E http \in HttpOutcomes :
         /\ l_http' = http
         /\ l_posts' = Append(l_posts, MessagesOf(l_prompt, l_intent, l_context))
         /\ l_ret' = ResponseOf(l_intent, http)
    /\ l_pc' = "done"
    /\ UNCHANGED <<l_entry, l_prompt, l_intent, l_context,
                   a_file_type, a_level, a_detection, a_out>>
    /\ UNCHANGED samplerVars
    /\ UNCHANGED videoVars
    /\ UNCHANGED batchVars
    /\ UNCHANGED appVars
    /\ UNCHANGED authVars

\* deepfake_agent lines 17-23.
AgentDetect ==
    /\ l_pc = "call"
    /\ l_entry = "deepfake_agent"
    /\ IF StartsWith(a_file_type, "image/")
       THEN /\ a_detection' \in ImageDetections
            /\ l_pc' = "detected"
            /\ UNCHANGED a_out
       ELSE IF StartsWith(a_file_type, "video/")
       THEN /\ a_detection' \in VideoDetections
            /\ l_pc' = "detected"
            /\ UNCHANGED a_out
       ELSE /\ a_out' = [error |-> "Unsupported file type"]
            /\ l_pc' = "done"
            /\ UNCHANGED a_detection
    /\ UNCHANGED <<l_entry, l_prompt, l_intent, l_context, l_posts, l_http,
                   l_ret, a_file_type, a_level>>
    /\ UNCHANGED samplerVars
    /\ UNCHANGED videoVars
    /\ UNCHANGED batchVars
    /\ UNCHANGED appVars
    /\ UNCHANGED authVars

\* deepfake_agent lines 25-35, with generate_analysis_explanation and its
\* call generate_response(prompt, "analysis").
AgentExplain ==
    /\ l_pc = "detected"
    /\ \E http \in HttpOutcomes :
         LET prompt == AnalysisPrompt(a_detection, "uploaded_file", a_level)
             ret == ResponseOf("analysis", http)
             explanation ==
                 IF ret.raised
                 THEN JStr("LLM explanation failed. Core detection succeeded.")
                 ELSE ret.v
         IN  /\ l_http' = http
             /\ l_prompt' = prompt
             /\ l_intent' = "analysis"
             /\ l_posts' = Append(l_posts, MessagesOf(prompt, "analysis", <<>>))
             /\ l_ret' = ret
             /\ a_out' = [k \in DOMAIN a_detection \cup {"explanation"} |->
                            IF k = "explanation" THEN explanation
                            ELSE a_detection[k]]
    /\ l_pc' = "done"
    /\ UNCHANGED <<l_entry, l_context, a_file_type, a_level, a_detection>>
    /\ UNCHANGED samplerVars
    /\ UNCHANGED videoVars
    /\ UNCHANGED batchVars
    /\ UNCHANGED appVars
    /\ UNCHANGED authVars

(***************************************************************************)
(* backend/app.py: detect, agent_detect, served by concurrent threads      *)
(***************************************************************************)

\* app.run(debug=True, port=5000): the development server serves each
\* request in a thread of its own; two of them are modelled.
Threads == {"t1", "t2"}

IdleApp ==
    /\ r_request = [t \in Threads |-> None]
    /\ r_pc = [t \in Threads |-> "idle"]
    /\ r_left = [t \in Threads |-> 0]
    /\ r_calls = [t \in Threads |-> {}]
    /\ r_raised = [t \in Threads |-> {}]
    /\ r_result = [t \in Threads |-> None]
    /\ r_responses = [t \in Threads |-> <<>>]

\* file.content_type of an uploaded part that carries no Content-Type.
NoContentType == "None"

ContentTypes == FileTypes \cup {NoContentType}

Endpoints == {"/api/detect", "/api/agent-detect"}

\* A request: whether request.files holds 'file', the part's content type,
\* and the number of frames the upload decodes to (an image is one frame).
AppRequests ==
    { [endpoint |-> e, has_file |-> FALSE, content_type |-> NoContentType,
       nframes |-> 0] : e \in Endpoints }
        \cup { r \in [endpoint : Endpoints, has_file : {TRUE},
                      content_type : ContentTypes, nframes : 0..AppFrames] :
                 /\ StartsWith(r.content_type, "image/") => r.nframes = 1
                 /\ (~StartsWith(r.content_type, "image/")
                        /\ ~StartsWith(r.content_type, "video/")) => r.nframes = 0 }

InitApp ==
    /\ r_request \in [Threads -> AppRequests]
    /\ r_pc = [t \in Threads |-> "recv"]
    /\ r_left = [t \in Threads |-> 0]
    /\ r_calls = [t \in Threads |-> {}]
    /\ r_raised = [t \in Threads |-> {}]
    /\ r_result = [t \in Threads |-> None]
    /\ r_responses = [t \in Threads |-> <<>>]

\* return jsonify(body), status
Response(status, body) == [status |-> status, body |-> body]

\* A handler without the try of lines 21/42: the exception leaves it.
HandlerNoExcept(e) == [escaped |-> TRUE, response |-> None]

\* except Exception as e: return jsonify({"error": str(e)}), 500
HandlerExcept(e) ==
    [escaped |-> FALSE, response |-> Response(500, [error |-> e])]

\* The handler of thread t returns resp.
Sent(t, resp) ==
    /\ r_responses' = [r_responses EXCEPT ![t] = Append(@, resp)]
    /\ r_pc' = [r_pc EXCEPT ![t] = "done"]

\* file_type.startswith(...) on None raises AttributeError inside the try.
NoneStartsWith(t) ==
    LET h == HandlerExcept("'NoneType' object has no attribute 'startswith'")
    IN  /\ r_raised' = [r_raised EXCEPT ![t] = @ \cup {"AttributeError"}]
        /\ IF h.escaped
           THEN /\ r_pc' = [r_pc EXCEPT ![t] = "escaped"]
                /\ UNCHANGED r_responses
           ELSE Sent(t, h.response)
        /\ UNCHANGED <<r_left, r_calls>>

\* detect_image(file) or detect_video(file) is entered.
CallDetector(t, name) ==
    /\ r_calls' = [r_calls EXCEPT ![t] = @ \cup {name}]
    /\ r_left' = [r_left EXCEPT ![t] = r_request[t].nframes]
    /\ r_pc' = [r_pc EXCEPT ![t] = "detector"]
    /\ UNCHANGED <<r_raised, r_responses>>

\* detect(): lines 15-27.
DetectRoute(t) ==
    /\ r_pc[t] = "recv"
    /\ r_request[t].endpoint = "/api/detect"
    /\ LET file_type == r_request[t].content_type
       IN  IF ~r_request[t].has_file
           THEN /\ Sent(t, Response(400, [error |-> "No file uploaded"]))
                /\ UNCHANGED <<r_left, r_calls, r_raised>>
           ELSE IF file_type = NoContentType THEN NoneStartsWith(t)
           ELSE IF StartsWith(file_type, "image/")
                THEN CallDetector(t, "detect_image")
           ELSE IF StartsWith(file_type, "video/")
                THEN CallDetector(t, "detect_video")
           ELSE /\ Sent(t, Response(400, [error |-> "Unsupported file type"]))
                /\ UNCHANGED <<r_left, r_calls, r_raised>>
    /\ UNCHANGED <<r_request, r_result>>
    /\ UNCHANGED samplerVars
    /\ UNCHANGED videoVars
    /\ UNCHANGED batchVars
    /\ UNCHANGED llmVars
    /\ UNCHANGED authVars

\* agent_detect(): lines 36-44, with deepfake_agent lines 18-23.
AgentDetectRoute(t) ==
    /\ r_pc[t] = "recv"
    /\ r_request[t].endpoint = "/api/agent-detect"
    /\ LET file_type == r_request[t].content_type
       IN  IF ~r_request[t].has_file
           THEN /\ Sent(t, Response(400, [error |-> "No file uploaded"]))
                /\ UNCHANGED <<r_left, r_calls, r_raised>>
           ELSE IF file_type = NoContentType THEN NoneStartsWith(t)
           ELSE IF StartsWith(file_type, "image/")
                THEN CallDetector(t, "detect_image")
           ELSE IF StartsWith(file_type, "video/")
                THEN CallDetector(t, "detect_video")
           ELSE /\ Sent(t, Response(200, [error |-> "Unsupported file type"]))
                /\ UNCHANGED <<r_left, r_calls, r_raised>>
    /\ UNCHANGED <<r_request, r_result>>
    /\ UNCHANGED samplerVars
    /\ UNCHANGED videoVars
    /\ UNCHANGED batchVars
    /\ UNCHANGED llmVars
    /\ UNCHANGED authVars

\* The error dict of the detector thread t is in (lines 31 and 72).
DetectorError(t) ==
    IF "detect_image" \in r_calls[t] THEN ImageError ELSE VideoError

\* The dicts the detector of thread t may return after classifying.
DetectorResults(t) ==
    IF "detect_image" \in r_calls[t]
    THEN ImageDetections \ {ImageError}
    ELSE VideoDetections \ {VideoError}

\* Image.open, the temporary file, the frame conversion or image_processor
\* raises: the detector's own except returns the error dict.
DetectorRaises(t) ==
    /\ r_pc[t] = "detector"
    /\ r_result' = [r_result EXCEPT ![t] = DetectorError(t)]
    /\ r_raised' = [r_raised EXCEPT ![t] = @ \cup {"detector"}]
    /\ r_pc' = [r_pc EXCEPT ![t] = "detected"]
    /\ UNCHANGED <<r_request, r_left, r_calls, r_responses>>
    /\ UNCHANGED samplerVars
    /\ UNCHANGED videoVars
    /\ UNCHANGED batchVars
    /\ UNCHANGED llmVars
    /\ UNCHANGED authVars

\* Lines 16-17 and 50-51: the thread calls model(**inputs), the model object
\* of the module; nothing is acquired before the call.
EnterInference(t) ==
    /\ r_pc[t] = "detector"
    /\ r_left[t] > 0
    /\ r_pc' = [r_pc EXCEPT ![t] = "infer"]
    /\ UNCHANGED <<r_request, r_left, r_calls, r_raised, r_result, r_responses>>
    /\ UNCHANGED samplerVars
    /\ UNCHANGED videoVars
    /\ UNCHANGED batchVars
    /\ UNCHANGED llmVars
    /\ UNCHANGED authVars

\* model(**inputs) returns the logits of the frame.
LeaveInference(t) ==
    /\ r_pc[t] = "infer"
    /\ r_left' = [r_left EXCEPT ![t] = @ - 1]
    /\ r_pc' = [r_pc EXCEPT ![t] = "detector"]
    /\ UNCHANGED <<r_request, r_calls, r_raised, r_result, r_responses>>
    /\ UNCHANGED samplerVars
    /\ UNCHANGED videoVars
    /\ UNCHANGED batchVars
    /\ UNCHANGED llmVars
    /\ UNCHANGED authVars

\* model(**inputs) raises: the detector's except returns the error dict.
InferenceRaises(t) ==
    /\ r_pc[t] = "infer"
    /\ r_result' = [r_result EXCEPT ![t] = DetectorError(t)]
    /\ r_raised' = [r_raised EXCEPT ![t] = @ \cup {"inference"}]
    /\ r_pc' = [r_pc EXCEPT ![t] = "detected"]
    /\ UNCHANGED <<r_request, r_left, r_calls, r_responses>>
    /\ UNCHANGED samplerVars
    /\ UNCHANGED videoVars
    /\ UNCHANGED batchVars
    /\ UNCHANGED llmVars
    /\ UNCHANGED authVars

\* Lines 19-29 and 60-70: every frame is classified and the detector
\* returns; with no frame, max() raises ValueError and line 72 returns.
DetectorReturn(t) ==
    /\ r_pc[t] = "detector"
    /\ r_left[t] = 0
    /\ IF r_request[t].nframes = 0
       THEN /\ r_result' = [r_result EXCEPT ![t] = DetectorError(t)]
            /\ r_raised' = [r_raised EXCEPT ![t] = @ \cup {"detector"}]
       ELSE /\ \E d \in DetectorResults(t) :
                 r_result' = [r_result EXCEPT ![t] = d]
            /\ UNCHANGED r_raised
    /\ r_pc' = [r_pc EXCEPT ![t] = "detected"]
    /\ UNCHANGED <<r_request, r_left, r_calls, r_responses>>
    /\ UNCHANGED samplerVars
    /\ UNCHANGED videoVars
    /\ UNCHANGED batchVars
    /\ UNCHANGED llmVars
    /\ UNCHANGED authVars

\* detect(): line 29.
DetectRespond(t) ==
    /\ r_pc[t] = "detected"
    /\ r_request[t].endpoint = "/api/detect"
    /\ Sent(t, Response(200, r_result[t]))
    /\ UNCHANGED <<r_request, r_left, r_calls, r_raised, r_result>>
    /\ UNCHANGED samplerVars
    /\ UNCHANGED videoVars
    /\ UNCHANGED batchVars
    /\ UNCHANGED llmVars
    /\ UNCHANGED authVars

\* deepfake_agent lines 26-35 and agent_detect line 44.
AgentRespond(t) ==
    /\ r_pc[t] = "detected"
    /\ r_request[t].endpoint = "/api/agent-detect"
    /\ \E http \in HttpOutcomes :
         LET ret == ResponseOf("analysis", http)
             explanation ==
                 IF ret.raised
                 THEN JStr("LLM explanation failed. Core detection succeeded.")
                 ELSE ret.v
             detection_result ==
                 [k \in DOMAIN r_result[t] \cup {"explanation"} |->
                     IF k = "explanation" THEN explanation ELSE r_result[t][k]]
         IN  /\ r_result' = [r_result EXCEPT ![t] = detection_result]
             /\ Sent(t, Response(200, detection_result))
    /\ r_calls' = [r_calls EXCEPT ![t] = @ \cup {"generate_analysis_explanation"}]
    /\ UNCHANGED <<r_request, r_left, r_raised>>
    /\ UNCHANGED samplerVars
    /\ UNCHANGED videoVars
    /\ UNCHANGED batchVars
    /\ UNCHANGED llmVars
    /\ UNCHANGED authVars

(***************************************************************************)
(* detection_model/main.py: token check, uploads and the three queries     *)
(***************************************************************************)

IdleAuth ==
    /\ detections = <<>>
    /\ storage = {}
    /\ api_last = None

Users == {"alice", "bob"}

\* payload.get("user_id") of a token whose payload has no user_id: None.
NoUserId == "None"

\* A token: signed with JWT_SECRET and current ("valid"), signed but past
\* its exp ("expired"), or not decodable with JWT_SECRET ("invalid"); and
\* the user_id its payload carries.
Tokens ==
    [kind : {"valid"}, user_id : Users \cup {NoUserId}]
        \cup [kind : {"expired", "invalid"}, user_id : Users]

\* File paths in the bucket; detection ids a caller may ask for.
Paths == {"uploads/a.mp4", "uploads/b.mp4"}
DetectionIds == 1..(MaxDetections + 1)

\* raise HTTPException(status_code, detail)
HttpError(status, detail) == [ok |-> FALSE, status |-> status, detail |-> detail]

\* verify_token: the payload, or 401.
VerifyToken(token) ==
    IF token.kind = "expired" THEN HttpError(401, "Token has expired")
    ELSE IF token.kind = "invalid" THEN HttpError(401, "Invalid token")
    ELSE [ok |-> TRUE,
          payload |-> IF token.user_id = NoUserId THEN <<>>
                      ELSE [user_id |-> token.user_id]]

\* The record of a call and its response: status, the detection rows in the
\* body and the signed URL's path in the body.
ApiResponse(call, token, arg, status, data, url) ==
    [call |-> call, token |-> token, arg |-> arg, status |-> status,
     data |-> data, url |-> url]

\* A response that carries an HTTPException.
ApiError(call, token, arg, status) ==
    ApiResponse(call, token, arg, status, <<>>, "none")

InitAuth ==
    /\ detections = <<>>
    /\ storage = {}
    /\ api_last = None

\* Lines 189-209 and 263-283: the row inserted for a finished analysis.
InsertDetection(user_id, file_path) ==
    Append(detections, [id |-> Len(detections) + 1, user_id |-> user_id,
                        file_path |-> file_path])

\* upload_file: lines 124-164.
UploadFile(token, file_path) ==
    /\ LET user_data == VerifyToken(token)
       IN  IF ~user_data.ok
           THEN /\ api_last' = ApiError("upload_file", token, file_path, user_data.status)
                /\ UNCHANGED <<detections, storage>>
           ELSE IF DictGet(user_data.payload, "user_id", NoUserId) = NoUserId
           THEN /\ api_last' = ApiError("upload_file", token, file_path, 401)
                /\ UNCHANGED <<detections, storage>>
           ELSE /\ storage' = storage \cup {file_path}
                /\ api_last' = ApiResponse("upload_file", token, file_path, 200,
                                            <<>>, "none")
                /\ UNCHANGED detections
    /\ UNCHANGED samplerVars
    /\ UNCHANGED videoVars
    /\ UNCHANGED batchVars
    /\ UNCHANGED llmVars
    /\ UNCHANGED appVars

\* upload_complete: lines 166-223.
UploadComplete(token, file_path) ==
    /\ LET user_data == VerifyToken(token)
           user_id == DictGet(user_data.payload, "user_id", NoUserId)
       IN  IF ~user_data.ok
           THEN /\ api_last' = ApiError("upload_complete", token, file_path,
                                         user_data.status)
                /\ UNCHANGED <<detections, storage>>
           ELSE IF user_id = NoUserId
           THEN /\ api_last' = ApiError("upload_complete", token, file_path, 401)
                /\ UNCHANGED <<detections, storage>>
           ELSE IF file_path \notin storage
           THEN /\ api_last' = ApiError("upload_complete", token, file_path, 404)
                /\ UNCHANGED <<detections, storage>>
           ELSE /\ Len(detections) < MaxDetections
                /\ detections' = InsertDetection(user_id, file_path)
                /\ api_last' = ApiResponse("upload_complete", token, file_path,
                                            200, <<>>, "none")
                /\ UNCHANGED storage
    /\ UNCHANGED samplerVars
    /\ UNCHANGED videoVars
    /\ UNCHANGED batchVars
    /\ UNCHANGED llmVars
    /\ UNCHANGED appVars

\* upload_and_analyze: lines 225-297; the path holds a fresh uuid.
UploadAndAnalyze(token) ==
    /\ LET user_data == VerifyToken(token)
           user_id == DictGet(user_data.payload, "user_id", NoUserId)
       IN  IF ~user_data.ok
           THEN /\ api_last' = ApiError("upload_and_analyze", token, "none",
                                         user_data.status)
                /\ UNCHANGED <<detections, storage>>
           ELSE IF user_id = NoUserId
           THEN /\ api_last' = ApiError("upload_and_analyze", token, "none", 401)
                /\ UNCHANGED <<detections, storage>>
           ELSE /\ Len(detections) < MaxDetections
                /\ \E file_path \in Paths \ storage :
                     /\ storage' = storage \cup {file_path}
                     /\ detections' = InsertDetection(user_id, file_path)
                     /\ api_last' = ApiResponse("upload_and_analyze", token,
                                                 file_path, 200, <<>>, "none")
    /\ UNCHANGED samplerVars
    /\ UNCHANGED videoVars
    /\ UNCHANGED batchVars
    /\ UNCHANGED llmVars
    /\ UNCHANGED appVars

\* A check of ownership that always passes.
OwnedByAnyone(detection, user_id) == TRUE

\* detection["user_id"] != user_id, negated.
OwnedBy(detection, user_id) == detection.user_id = user_id

\* get_user_detections: lines 299-319.
GetUserDetections(user_id, token) ==
    /\ LET user_data == VerifyToken(token)
           HasUserId(d) == OwnedBy(d, user_id)
       IN  IF ~user_data.ok
           THEN api_last' = ApiError("get_user_detections", token, user_id,
                                     user_data.status)
           ELSE IF DictGet(user_data.payload, "user_id", NoUserId) # user_id
           THEN api_last' = ApiError("get_user_detections", token, user_id, 403)
           ELSE api_last' = ApiResponse("get_user_detections", token, user_id,
                                        200, SelectSeq(detections, HasUserId),
                                        "none")
    /\ UNCHANGED <<detections, storage>>
    /\ UNCHANGED samplerVars
    /\ UNCHANGED videoVars
    /\ UNCHANGED batchVars
    /\ UNCHANGED llmVars
    /\ UNCHANGED appVars

\* get_detection_details: lines 321-349.
GetDetectionDetails(detection_id, token) ==
    /\ LET user_data == VerifyToken(token)
           user_id == DictGet(user_data.payload, "user_id", NoUserId)
           HasId(d) == d.id = detection_id
           data == SelectSeq(detections, HasId)
       IN  IF ~user_data.ok
           THEN api_last' = ApiError("get_detection_details", token,
                                     detection_id, user_data.status)
           ELSE IF data = <<>>
           THEN api_last' = ApiError("get_detection_details", token,
                                     detection_id, 404)
           ELSE IF ~OwnedBy(data[1], user_id)
           THEN api_last' = ApiError("get_detection_details", token,
                                     detection_id, 403)
           ELSE api_last' = ApiResponse("get_detection_details", token,
                                        detection_id, 200, <<data[1]>>, "none")
    /\ UNCHANGED <<detections, storage>>
    /\ UNCHANGED samplerVars
    /\ UNCHANGED videoVars
    /\ UNCHANGED batchVars
    /\ UNCHANGED llmVars
    /\ UNCHANGED appVars

\* get_file_url: lines 351-382; creating the signed URL may fail.
GetFileUrl(file_path, token) ==
    /\ LET user_data == VerifyToken(token)
           user_id == DictGet(user_data.payload, "user_id", NoUserId)
           HasUserAndPath(d) == OwnedBy(d, user_id) /\ d.file_path = file_path
           data == SelectSeq(detections, HasUserAndPath)
       IN  IF ~user_data.ok
           THEN api_last' = ApiError("get_file_url", token, file_path,
                                     user_data.status)
           ELSE IF data = <<>>
           THEN api_last' = ApiError("get_file_url", token, file_path, 403)
           ELSE \/ api_last' = ApiError("get_file_url", token, file_path, 500)
                \/ api_last' = ApiResponse("get_file_url", token, file_path,
                                           200, <<>>, file_path)
    /\ UNCHANGED <<detections, storage>>
    /\ UNCHANGED samplerVars
    /\ UNCHANGED videoVars
    /\ UNCHANGED batchVars
    /\ UNCHANGED llmVars
    /\ UNCHANGED appVars

NextSampler == UniformTemporalSubsample

InitS ==
    InitSampler /\ IdleVideo /\ IdleBatch /\ IdleLlm /\ IdleApp /\ IdleAuth

SpecSampler == InitS /\ [][NextSampler]_vars

NextVideo ==
    \/ DvWriteTemp
    \/ DvOpen
    \/ DvFrame
    \/ DvFrameRaises
    \/ DvRelease
    \/ DvAggregate

InitV ==
    IdleSampler /\ InitVideo /\ IdleBatch /\ IdleLlm /\ IdleApp /\ IdleAuth

SpecVideo == InitV /\ [][NextVideo]_vars

NextBatch ==
    \/ PredictBatchCall
    \/ PredictDirectory
    \/ PredictBatchItem
    \/ PredictBatchReturn
    \/ PredictBatchImagesGlob
    \/ PredictBatchImagesItem
    \/ PredictBatchImagesReturn

InitB ==
    IdleSampler /\ IdleVideo /\ InitBatch /\ IdleLlm /\ IdleApp /\ IdleAuth

SpecBatch == InitB /\ [][NextBatch]_vars

NextLlm ==
    \/ GenerateResponse
    \/ AgentDetect
    \/ AgentExplain

InitL ==
    IdleSampler /\ IdleVideo /\ IdleBatch /\ InitLlm /\ IdleApp /\ IdleAuth

SpecLlm == InitL /\ [][NextLlm]_vars

\* The steps of thread t.
ThreadStep(t) ==
    \/ DetectRoute(t)
    \/ AgentDetectRoute(t)
    \/ DetectorRaises(t)
    \/ EnterInference(t)
    \/ LeaveInference(t)
    \/ InferenceRaises(t)
    \/ DetectorReturn(t)
    \/ DetectRespond(t)
    \/ AgentRespond(t)

NextApp ==
    \E t \in Threads :
        \/ DetectRoute(t)
        \/ AgentDetectRoute(t)
        \/ DetectorRaises(t)
        \/ EnterInference(t)
        \/ LeaveInference(t)
        \/ InferenceRaises(t)
        \/ DetectorReturn(t)
        \/ DetectRespond(t)
        \/ AgentRespond(t)

InitA ==
    IdleSampler /\ IdleVideo /\ IdleBatch /\ IdleLlm /\ InitApp /\ IdleAuth

SpecApp == InitA /\ [][NextApp]_vars

NextAuth ==
    \E token \in Tokens :
        \/ \E file_path \in Paths : UploadFile(token, file_path)
        \/ \E file_path \in Paths : UploadComplete(token, file_path)
        \/ UploadAndAnalyze(token)
        \/ \E user_id \in Users : GetUserDetections(user_id, token)
        \/ \E detection_id \in DetectionIds :
               GetDetectionDetails(detection_id, token)
        \/ \E file_path \in Paths : GetFileUrl(file_path, token)

InitU ==
    IdleSampler /\ IdleVideo /\ IdleBatch /\ IdleLlm /\ IdleApp /\ InitAuth

SpecAuth == InitU /\ [][NextAuth]_vars

(***************************************************************************)
(* Claims                                                                  *)
(***************************************************************************)

NonDecreasing(idx) == \A j, k \in 1..Len(idx) : j <= k => idx[j] <= idx[k]

\* C1: for 1 <= F <= N the sampler returns exactly N frames; positions
\* 0..F-1 are the source frames in order and positions F..N-1 hold source
\* frame F-1.
C1_ShortVideoPadded ==
    (us_pc # "call" /\ Len(frames) >= 1 /\ Len(frames) <= num_samples) =>
        /\ us_pc = "return"
        /\ Len(indices) = num_samples
        /\ Len(sampled) = num_samples
        /\ \A k \in 1..num_samples :
             /\ indices[k] = (IF k <= Len(frames) THEN k - 1 ELSE Len(frames) - 1)
             /\ sampled[k] = frames[indices[k] + 1]

\* C1 witness: 5 frames, 10 required, indices [0,1,2,3,4,4,4,4,4,4].
C1_Witness ==
    /\ us_pc = "return"
    /\ Len(frames) = 5
    /\ num_samples = 10
    /\ indices = <<0, 1, 2, 3, 4, 4, 4, 4, 4, 4>>

\* C2 as stated: for F > N >= 1 the sampler returns exactly N frames, with
\* non-decreasing source indices, the first 0 and the last F-1.
C2_SpansFullExtent ==
    (us_pc # "call" /\ Len(frames) > num_samples) =>
        /\ us_pc = "return"
        /\ Len(indices) = num_samples
        /\ Len(sampled) = num_samples
        /\ NonDecreasing(indices)
        /\ indices[1] = 0
        /\ indices[num_samples] = Len(frames) - 1

\* C2 amended: for F > N >= 1 the sampler returns exactly N frames, with
\* non-decreasing source indices and the first index 0; the last index is
\* F-1 when N >= 2, and with N = 1 the only index is 0.
C2_SpansFullExtentFromTwo ==
    (us_pc # "call" /\ Len(frames) > num_samples) =>
        /\ us_pc = "return"
        /\ Len(indices) = num_samples
        /\ Len(sampled) = num_samples
        /\ NonDecreasing(indices)
        /\ indices[1] = 0
        /\ num_samples >= 2 => indices[num_samples] = Len(frames) - 1
        /\ \A k \in 1..num_samples : sampled[k] = frames[indices[k] + 1]

\* C2 witness: 9 frames, 4 required, indices [0,2,5,8].
C2_Witness ==
    /\ us_pc = "return"
    /\ Len(frames) = 9
    /\ num_samples = 4
    /\ indices = <<0, 2, 5, 8>>

IsVideoResult(out) == "label" \in DOMAIN out

\* C3: the reported confidence of a video is the mean of the confidences of
\* exactly the entries whose label is the final label, and lies in [0,1].
C3_MeanOfAgreeing ==
    (dv_pc = "done" /\ IsVideoResult(dv_out)) =>
        /\ dv_out.confidence[1] * CountOf(results, dv_out.label)
              = SumConf(results, dv_out.label) * dv_out.confidence[2]
        /\ dv_out.confidence[1] >= 0
        /\ dv_out.confidence[1] <= ConfScale * dv_out.confidence[2]

\* C4: the final label of a video occurs among the predictions and no other
\* label occurs strictly more often.
C4_MajorityVote ==
    (dv_pc = "done" /\ IsVideoResult(dv_out)) =>
        /\ results # <<>>
        /\ dv_out.label \in LabelSet(results)
        /\ \A l \in LabelSet(results) :
             CountOf(results, l) <= CountOf(results, dv_out.label)

\* C4 witness: a result over predictions of both labels, one in the majority.
C4_Witness ==
    /\ dv_pc = "done"
    /\ IsVideoResult(dv_out)
    /\ Cardinality(LabelSet(results)) = 2
    /\ \E l \in LabelSet(results) :
         CountOf(results, l) < CountOf(results, dv_out.label)

\* The labels with the highest count, and the one of them occurring first.
TopLabels(res) ==
    { l \in LabelSet(res) :
        \A m \in LabelSet(res) : CountOf(res, m) <= CountOf(res, l) }

FirstTopLabel(res) ==
    res[CHOOSE k \in 1..Len(res) :
            /\ res[k][1] \in TopLabels(res)
            /\ \A j \in 1..(k - 1) : res[j][1] \notin TopLabels(res)][1]

\* C5: when labels tie for the highest count the final label is the one of
\* them that occurs first in the sequence.
C5_TieBreakFirstOccurrence ==
    (dv_pc = "done" /\ IsVideoResult(dv_out)) =>
        dv_out.label = FirstTopLabel(results)

\* C6: with no prediction (no frame could be read) detect_video returns an
\* error outcome, never a result carrying a label or a confidence.
C6_EmptyIsError ==
    (dv_pc = "done" /\ results = <<>>) =>
        /\ "error" \in DOMAIN dv_out
        /\ "label" \notin DOMAIN dv_out
        /\ "confidence" \notin DOMAIN dv_out

\* C6 witness: a video without a readable frame went through aggregation.
C6_Witness ==
    /\ dv_pc = "done"
    /\ video = <<>>
    /\ results = <<>>
    /\ tmp_exists
    /\ ~cap_held
    /\ dv_out = VideoError

FailsToDecodeOrInfer(media) == media.nframes = 0 \/ media.infer = "raise"

\* C7: in a batch run over video paths an item with no decodable frame, or
\* whose inference raises, is recorded as an error entry carrying its path,
\* the run is never aborted by it, and every item of the list is processed
\* before the run returns.
C7_FailureIsolated ==
    (b_entry \in {"predict_batch", "predict_directory"}) =>
        /\ b_pc # "raised"
        /\ Len(b_results) = b_i
        /\ \A k \in 1..Len(b_results) :
             /\ b_results[k].video_path = video_paths[k]
             /\ FailsToDecodeOrInfer(fs_media[video_paths[k]]) <=>
                    "error" \in DOMAIN b_results[k]
             /\ FailsToDecodeOrInfer(fs_media[video_paths[k]]) <=>
                    "prediction" \notin DOMAIN b_results[k]
        /\ b_pc = "return" => Len(b_results) = Len(video_paths)

\* C7 witness: a finished run whose first item failed to decode and whose
\* second item was predicted.
C7_Witness ==
    /\ b_entry = "predict_batch"
    /\ b_pc = "return"
    /\ Len(video_paths) >= 2
    /\ fs_media[video_paths[1]].nframes = 0
    /\ "error" \in DOMAIN b_results[1]
    /\ "prediction" \in DOMAIN b_results[2]

\* The distinct items a run is given, and the item an entry is about.
InputItems ==
    CASE b_entry = "predict_batch" -> { video_paths[k] : k \in DOMAIN video_paths }
      [] b_entry = "predict_directory" -> Glob("mp4") \cup Glob(Upper("mp4"))
      [] b_entry = "predict_batch_images" ->
            UNION { Glob(ImageExtensions[k]) \cup Glob(Upper(ImageExtensions[k])) :
                      k \in DOMAIN ImageExtensions }
      [] OTHER -> {}

EntryItem(r) == IF "video_path" \in DOMAIN r THEN r.video_path ELSE r.image_path

\* C8: when a batch or directory run has finished, the report holds exactly
\* one entry (a prediction or an error descriptor) per distinct input item.
C8_EachItemExactlyOnce ==
    (b_pc = "return") =>
        /\ \A k \in DOMAIN b_results : EntryItem(b_results[k]) \in InputItems
        /\ \A f \in InputItems :
             Cardinality({ k \in DOMAIN b_results : EntryItem(b_results[k]) = f }) = 1

\* A body that carries a completion string at choices[0].message.content.
WellFormedBody(b) ==
    /\ b.t = "dict"
    /\ "choices" \in DOMAIN b.v
    /\ b.v.choices.t = "list"
    /\ Len(b.v.choices.v) > 0
    /\ b.v.choices.v[1].t = "dict"
    /\ "message" \in DOMAIN b.v.choices.v[1].v
    /\ b.v.choices.v[1].v.message.t = "dict"
    /\ "content" \in DOMAIN b.v.choices.v[1].v.message.v
    /\ b.v.choices.v[1].v.message.v.content.t = "str"

\* The external call failed: no response, a non-2xx response, or a body that
\* is not JSON or carries no completion string.
CallFailed(http) ==
    \/ http.kind # "response"
    \/ /\ http.kind = "response"
       /\ \/ http.status < 200
          \/ http.status > 299
          \/ ~http.json
          \/ http.json /\ ~WellFormedBody(http.body)

\* C9: for each defined intent, when the external call fails in any way,
\* generate_response returns that intent's fallback string and does not
\* raise.
C9_FallbackOnFailure ==
    (l_pc = "done" /\ l_entry = "generate_response" /\ l_intent \in Intents
        /\ CallFailed(l_http)) =>
        l_ret = Value(JStr(FALLBACKS[l_intent]))

\* C10: whenever detection of a supported file succeeds, deepfake_agent
\* returns the detection's label, confidence and artifacts unchanged, plus
\* an explanation string.
C10_DetectionSurvivesExplanation ==
    (l_pc = "done" /\ l_entry = "deepfake_agent" /\ "label" \in DOMAIN a_detection) =>
        /\ "label" \in DOMAIN a_out
        /\ a_out.label = a_detection.label
        /\ a_out.confidence = a_detection.confidence
        /\ a_out.artifacts = a_detection.artifacts
        /\ "explanation" \in DOMAIN a_out
        /\ a_out.explanation.t = "str"

\* C14: for F > N >= 2 the N source indices chosen by the sampler are
\* strictly increasing, so no frame is selected twice.
C14_IndicesDistinct ==
    (us_pc # "call" /\ num_samples >= 2 /\ Len(frames) > num_samples) =>
        /\ us_pc = "return"
        /\ Len(indices) = num_samples
        /\ \A j, k \in 1..Len(indices) : j < k => indices[j] < indices[k]
        /\ Cardinality({ indices[k] : k \in 1..Len(indices) }) = num_samples

\* C14 witness: 9 frames, 7 required, the closest F and N of the bounds with
\* a step that is not whole (8/6).
C14_Witness ==
    /\ us_pc = "return"
    /\ Len(frames) = 9
    /\ num_samples = 7
    /\ indices = <<0, 1, 2, 4, 5, 6, 8>>

\* generate_response has been called and has ended (returned or raised).
GenerateResponseEnded ==
    /\ l_pc = "done"
    /\ \/ l_entry = "generate_response"
       \/ l_entry = "deepfake_agent" /\ a_detection # None

\* C15: a call of generate_response contacts the service exactly once, and
\* the request holds, in this order, the system message of the intent
\* category, the last (at most 6) context messages in their original order,
\* and the current prompt as the final user message.
C15_RequestShape ==
    GenerateResponseEnded =>
        /\ Len(l_posts) = 1
        /\ LET messages == l_posts[1]
               m == IF Len(l_context) < 6 THEN Len(l_context) ELSE 6
           IN  /\ Len(messages) = m + 2
               /\ messages[1].role = "system"
               /\ l_intent \in Intents =>
                      messages[1].content = SYSTEM_PROMPTS[l_intent]
               /\ \A j \in 1..m :
                      messages[1 + j] = l_context[Len(l_context) - m + j]
               /\ messages[m + 2] = [role |-> "user", content |-> l_prompt]

\* C15 witness: a call with 8 context messages whose request carries the
\* system message, messages 3..8 and the prompt.
C15_Witness ==
    /\ l_pc = "done"
    /\ l_entry = "generate_response"
    /\ l_intent = "educational"
    /\ Len(l_context) = 8
    /\ Len(l_posts) = 1
    /\ Len(l_posts[1]) = 8
    /\ l_posts[1][2] = l_context[3]
    /\ l_posts[1][7] = l_context[8]

\* C16: generate_response never raises, whatever the intent: an intent
\* outside the four categories gets the conversational system prompt, and on
\* a failed external call a fallback string is returned (for the four
\* categories the returned fallback is the subject of C9).
C16_NeverRaises ==
    (l_pc = "done" /\ l_entry = "generate_response") =>
        /\ ~l_ret.raised
        /\ l_intent \notin Intents =>
               l_posts[1][1].content = SYSTEM_PROMPTS["conversational"]
        /\ (l_intent \notin Intents /\ CallFailed(l_http)) =>
               \E i \in Intents : l_ret.v = JStr(FALLBACKS[i])

\* The loop of detect_video has ended at line 43 or line 46.
DvLoopEnded == dv_pc = "aggregate" \/ (dv_pc = "done" /\ ~cap_held)

\* C17: detect_video classifies the first min(F, 10) frames of a video with
\* F decodable frames, one prediction per frame in decode order, never more
\* than 10, and reads no further than the first failed read.
C17_FirstTenFrames ==
    (dv_pc \in {"loop", "aggregate", "done"}) =>
        /\ frames_analyzed <= 10
        /\ frames_analyzed <= Len(video)
        /\ Len(results) = frames_analyzed
        /\ \A k \in 1..Len(results) :
               results[k] = <<video[k].label, video[k].conf>>
        /\ DvLoopEnded =>
               Len(results) = (IF Len(video) < 10 THEN Len(video) ELSE 10)

\* C17 witness: a video of 12 frames was processed and 10 were classified.
C17_Witness ==
    /\ dv_pc = "done"
    /\ Len(video) = 12
    /\ frames_analyzed = 10
    /\ Len(results) = 10
    /\ IsVideoResult(dv_out)

\* C18: when detect_video has returned, with a result or with an error, the
\* capture it opened has been released and its temporary file removed.
C18_NoResourceLeft ==
    (dv_pc = "done") => (~cap_held /\ ~tmp_exists)

\* C11: an upload whose content type starts with neither image/ nor video/
\* is answered with the error "Unsupported file type" on both endpoints, and
\* neither a detector nor the explanation service is invoked for it.
C11_UnsupportedRejected ==
    \A t \in Threads :
        (r_pc[t] # "idle" /\ r_request[t].has_file
            /\ r_request[t].content_type = "text/plain") =>
            /\ r_calls[t] = {}
            /\ r_pc[t] \in {"recv", "done"}
            /\ r_pc[t] = "done" =>
                   /\ Len(r_responses[t]) = 1
                   /\ r_responses[t][1].body = [error |-> "Unsupported file type"]
                   /\ r_responses[t][1].status =
                          (IF r_request[t].endpoint = "/api/detect" THEN 400 ELSE 200)

\* C11 witness: a text/plain upload was answered on each endpoint.
C11_Witness ==
    /\ r_pc = [t \in Threads |-> "done"]
    /\ \A t \in Threads : r_request[t].has_file
    /\ \A t \in Threads : r_request[t].content_type = "text/plain"
    /\ r_request["t1"].endpoint = "/api/detect"
    /\ r_request["t2"].endpoint = "/api/agent-detect"
    /\ \A t \in Threads : Len(r_responses[t]) = 1

C13_InferenceSerialized ==
    Cardinality({ t \in Threads : r_pc[t] = "infer" }) <= 1

\* The last call was one of the three queries.
IsQuery ==
    /\ api_last # None
    /\ api_last.call \in {"get_user_detections", "get_detection_details",
                           "get_file_url"}

\* Some stored detection of that user points at that file.
OwnsDetectionOfFile(user_id, file_path) ==
    \E k \in DOMAIN detections :
        detections[k].user_id = user_id /\ detections[k].file_path = file_path

\* The caller's token is a valid token of a user other than the owner of
\* what the query asks for.
OtherUsersToken ==
    /\ api_last.token.kind = "valid"
    /\ CASE api_last.call = "get_user_detections" ->
                api_last.token.user_id # api_last.arg
          [] api_last.call = "get_detection_details" ->
                /\ api_last.arg \in DOMAIN detections
                /\ detections[api_last.arg].user_id # api_last.token.user_id
          [] api_last.call = "get_file_url" ->
                ~OwnsDetectionOfFile(api_last.token.user_id, api_last.arg)

\* C19: a query returns a stored detection record or a signed file URL only
\* to a caller whose verified token carries the user_id owning that
\* detection; an invalid or expired token gets 401, another user's token
\* gets 403, and neither gets any record data.
C19_OnlyOwnerReads ==
    IsQuery =>
        /\ \A k \in DOMAIN api_last.data :
               /\ api_last.token.kind = "valid"
               /\ api_last.data[k].user_id = api_last.token.user_id
               /\ \E j \in DOMAIN detections : detections[j] = api_last.data[k]
        /\ api_last.url # "none" =>
               /\ api_last.token.kind = "valid"
               /\ api_last.url = api_last.arg
               /\ OwnsDetectionOfFile(api_last.token.user_id, api_last.url)
        /\ api_last.token.kind \in {"invalid", "expired"} =>
               /\ api_last.status = 401
               /\ api_last.data = <<>>
               /\ api_last.url = "none"
        /\ OtherUsersToken =>
               /\ api_last.status = 403
               /\ api_last.data = <<>>
               /\ api_last.url = "none"

\* C19 witness: alice and bob each own a detection and bob, with his valid
\* token, asked for alice's detection and was refused.
C19_Witness ==
    /\ IsQuery
    /\ Len(detections) = 2
    /\ detections[1].user_id = "alice"
    /\ detections[2].user_id = "bob"
    /\ api_last.call = "get_detection_details"
    /\ api_last.arg = 1
    /\ api_last.token = [kind |-> "valid", user_id |-> "bob"]
    /\ api_last.status = 403
    /\ api_last.data = <<>>

====
